---- MODULE Spec2Model ----
(***************************************************************************)
(* Shape-level model of nets/deep_roots.py: the graph that                 *)
(* ResNet.build_graph constructs (tensor shapes, variable scopes, the      *)
(* UPDATE_OPS collection, the training op), followed by executions of the  *)
(* built graph (a forward fetch, a training step).                         *)
(*                                                                         *)
(* A tensor is represented by its static shape, a sequence of dimensions   *)
(* <<batch, height, width, channels>>.                                     *)
(***************************************************************************)
EXTENDS Integers, Sequences, FiniteSets, TLC

\* ---------------------------------------------------------------- bounds
MaxImage == 6
MaxBatch == 2
MaxClasses == 2
MaxUnits == 2
MaxRuns == 2

\* ------------------------------------------------------ program constants
ImageChannels == 3
InitFilters == 16
StageFilters == 8
FinalFilters == 40
NumSplit == 2

Modes == {"train", "eval"}
Optimizers == {"sgd", "mom", "adam"}

VARIABLES
  hps,          \* HParams: batch_size, num_classes, num_residual_units, optimizer
  mode,         \* self.mode
  images,       \* shape of self._images
  pc,           \* position in build_graph / _build_model
  error,        \* exception that ended the build ("" while none)
  tensors,      \* local tensors of _build_model: name -> shape
  si,           \* index of the stage call being executed inside the current block
  ri,           \* residual units already applied by the running stage call
  x,            \* local x of the running stage call
  applied,      \* stage scope -> sequence of [stride, out_filter] of its residual units
  returned,     \* stage scopes whose call has returned
  last_add,     \* operands of the latest x += orig_x
  layers,       \* scope paths of the layers created so far, in creation order
  update_ops,   \* tf.GraphKeys.UPDATE_OPS collection
  head,         \* tensors of the 'unify', 'final' and 'logit' scopes
  train_op,     \* self.train_op
  moving,       \* batch-norm layer -> number of moving-average updates applied
  global_step,  \* value of the global_step variable
  fwd_runs,     \* forward fetches executed on the built graph
  train_runs,   \* training steps executed on the built graph
  unit          \* a stand-alone call of _residual: arguments and result

vars == <<hps, mode, images, pc, error, tensors, si, ri, x, applied, returned,
          last_add, layers, update_ops, head, train_op, moving, global_step,
          fwd_runs, train_runs, unit>>

buildVars == <<hps, mode, images, pc, error, tensors, si, ri, x, applied, returned,
               last_add, layers, update_ops, head, train_op, moving, global_step,
               fwd_runs, train_runs>>

\* ------------------------------------------------------------ primitives

\* str(i) for the residual indices
str(i) == ToString(i)

\* tf.variable_scope nesting: the full name of `name` opened inside `outer`
variable_scope(outer, name) == IF outer = "" THEN name ELSE outer \o "/" \o name

\* ceil(a / s), the output size of 'SAME' padding
ceil_div(a, s) == (a + s - 1) \div s

\* slim.layers.conv2d(..., stride, padding='SAME'): shape of the result
conv(in, out_filters, stride) ==
  <<in[1], ceil_div(in[2], stride), ceil_div(in[3], stride), out_filters>>

\* is_training argument handed to slim.layers.batch_norm
is_training_mut(m) == FALSE
is_training(m) == m = "train"

\* slim.layers.batch_norm and the leaky relu keep the shape
batch_norm(in) == in
relu(in) == in

\* tf.nn.avg_pool(x, [1,k,k,1], [1,k,k,1], 'VALID'): the window must fit
avg_pool_fits(in, k) == in[2] >= k /\ in[3] >= k
avg_pool(in, k) ==
  <<in[1], (in[2] - k) \div k + 1, (in[3] - k) \div k + 1, in[4]>>

\* tf.pad on the channel dimension: paddings must be non-negative
pad_ok(p) == p >= 0
pad(in, p) == <<in[1], in[2], in[3], in[4] + p + p>>

\* x += orig_x: elementwise add with broadcasting of the static shapes
dim_compatible(a, b) == a = b \/ a = 1 \/ b = 1
broadcast_dim(a, b) == IF a = 1 THEN b ELSE a
add_ok(a, b) == \A d \in 1..4 : dim_compatible(a[d], b[d])
add(a, b) == [d \in 1..4 |-> broadcast_dim(a[d], b[d])]

\* tf.split(3, 2, x): two equal halves of the channel dimension
split_ok(in) == in[4] % NumSplit = 0
split_mut(in) == <<in[1], in[2], in[3], in[4] \div (NumSplit * NumSplit)>>
split(in) == <<in[1], in[2], in[3], in[4] \div NumSplit>>

\* tf.concat(3, values): all dimensions but the last must agree
concat_ok(values) ==
  \A i \in 1..Len(values) : \A d \in 1..3 : values[i][d] = values[1][d]
RECURSIVE sum_channels(_)
sum_channels(values) ==
  IF values = <<>> THEN 0 ELSE Head(values)[4] + sum_channels(Tail(values))
concat_mut(values) ==
  <<values[1][1], values[1][2], values[1][3], values[1][4]>>
concat(values) ==
  <<values[1][1], values[1][2], values[1][3], sum_channels(values)>>

\* tf.reduce_mean(x, [1, 2]) after the rank assertion
global_avg_pool_mut(in) == <<in[1], in[2], in[4]>>
global_avg_pool(in) == <<in[1], in[4]>>

\* slim.layers.flatten: [batch, product of the other dimensions]
RECURSIVE prod(_)
prod(s) == IF s = <<>> THEN 1 ELSE Head(s) * prod(Tail(s))
flatten(in) == <<in[1], prod(Tail(in))>>

\* slim.layers.fully_connected(x, out_dim)
fully_connected(in, out_dim) == <<in[1], out_dim>>

\* ---------------------------------------------------------- residual unit

\* _residual(x, out_filter, stride): shapes on the main path, the shortcut, and
\* the outcome of the add
residual(in, out_filter, stride) ==
  LET sub1 == conv(relu(batch_norm(in)), out_filter, stride)
      sub2 == conv(relu(batch_norm(sub1)), out_filter, 1)
      in_filter == in[4]
      in_kernel_size == in[3]
      out_kernel_size == sub2[3]
      adjust == in_filter # out_filter \/ in_kernel_size # out_kernel_size
      p == (out_filter - in_filter) \div 2
  IN  IF adjust /\ ~avg_pool_fits(in, stride)
        THEN [ok |-> FALSE, err |-> "ValueError: avg_pool", added |-> FALSE,
              main |-> sub2, shortcut |-> in, out |-> sub2]
      ELSE IF adjust /\ ~pad_ok(p)
        THEN [ok |-> FALSE, err |-> "ValueError: pad", added |-> FALSE,
              main |-> sub2, shortcut |-> avg_pool(in, stride), out |-> sub2]
      ELSE LET orig_x == IF adjust THEN pad(avg_pool(in, stride), p) ELSE in
           IN  IF add_ok(sub2, orig_x)
                 THEN [ok |-> TRUE, err |-> "", added |-> TRUE,
                       main |-> sub2, shortcut |-> orig_x, out |-> add(sub2, orig_x)]
                 ELSE [ok |-> FALSE, err |-> "ValueError: add", added |-> TRUE,
                       main |-> sub2, shortcut |-> orig_x, out |-> sub2]

\* scope of the i-th residual unit of a stage
residual_scope_mut(i) == "residual_" \o str(0)
residual_scope(i) == "residual_" \o str(i)

\* layers a residual unit creates inside scope sc, in creation order
residual_bn(sc) ==
  << variable_scope(variable_scope(sc, "sub1"), "bn_2"),
     variable_scope(variable_scope(sc, "sub2"), "bn_2") >>
residual_layers(sc) ==
  << [scope |-> variable_scope(variable_scope(sc, "sub1"), "bn_2"), kind |-> "bn"],
     [scope |-> variable_scope(variable_scope(sc, "sub1"), "conv1"), kind |-> "conv"],
     [scope |-> variable_scope(variable_scope(sc, "sub2"), "bn_2"), kind |-> "bn"],
     [scope |-> variable_scope(variable_scope(sc, "sub2"), "conv2"), kind |-> "conv"] >>

\* for i in range(1, n_residuals): the loop condition
loop_continues_mut(i, n) == i <= n
loop_continues(i, n) == i < n

\* ------------------------------------------------------- the branching body

Blocks == {"block1", "block2", "block3"}
BlockStages(b) ==
  CASE b = "block1" -> <<"A", "B">>
    [] b = "block2" -> <<"AA", "AB", "BA", "BB">>
    [] b = "block3" -> <<"AAA", "AAB", "ABA", "ABB", "BAA", "BAB", "BBA", "BBB">>
first_layer_stride(b) == IF b = "block1" THEN 1 ELSE 2
AfterBlock(b) ==
  CASE b = "block1" -> "split2"
    [] b = "block2" -> "split3"
    [] b = "block3" -> "unify"
AllStages == {"A", "B", "AA", "AB", "BA", "BB",
              "AAA", "AAB", "ABA", "ABB", "BAA", "BAB", "BBA", "BBB"}

SeqToSet(s) == {s[i] : i \in 1..Len(s)}

\* batch-norm layers register their moving-average update when training
bn_updates(m, bns) == IF is_training(m) THEN bns ELSE <<>>
bn_register(mv, bns) == [p \in DOMAIN mv \cup SeqToSet(bns) |->
                           IF p \in DOMAIN mv THEN mv[p] ELSE 0]

NoUnit == [called |-> FALSE, in |-> <<>>, out_filter |-> 0, stride |-> 0,
           res |-> [ok |-> FALSE, err |-> "", added |-> FALSE,
                    main |-> <<>>, shortcut |-> <<>>, out |-> <<>>]]
NoHead == [concat |-> <<>>, pool |-> <<>>, flat |-> <<>>,
           logits |-> <<>>, predictions |-> <<>>]
NoneTrainOp == [exists |-> FALSE, ops |-> {}]

Init ==
  /\ hps \in [batch_size : 1..MaxBatch, num_classes : 1..MaxClasses,
              num_residual_units : 0..MaxUnits, optimizer : Optimizers]
  /\ mode \in Modes
  /\ \E h \in 1..MaxImage, w \in 1..MaxImage :
        images = <<hps.batch_size, h, w, ImageChannels>>
  /\ pc = "init"
  /\ error = ""
  /\ tensors = [n \in {} |-> <<>>]
  /\ si = 1
  /\ ri = 0
  /\ x = <<>>
  /\ applied = [s \in AllStages |-> <<>>]
  /\ returned = {}
  /\ last_add = [main |-> <<>>, shortcut |-> <<>>]
  /\ layers = <<>>
  /\ update_ops = <<>>
  /\ head = NoHead
  /\ train_op = NoneTrainOp
  /\ moving = [p \in {} |-> 0]
  /\ global_step = 0
  /\ fwd_runs = 0
  /\ train_runs = 0
  /\ unit = NoUnit

\* with tf.variable_scope('init'): x = self._conv('init_conv', x, 16, stride=1)
InitConv ==
  /\ pc = "init"
  /\ tensors' = ("x" :> conv(images, InitFilters, 1))
  /\ layers' = Append(layers, [scope |-> variable_scope("init", "init_conv"),
                                kind |-> "conv"])
  /\ pc' = "split1"
  /\ UNCHANGED <<hps, mode, images, error, si, ri, x, applied, returned, last_add,
                 update_ops, head, train_op, moving, global_step, fwd_runs,
                 train_runs, unit>>

\* with tf.variable_scope('block1-split'): x_A, x_B = tf.split(3, 2, x)
Split1 ==
  /\ pc = "split1"
  /\ IF split_ok(tensors["x"])
       THEN /\ tensors' = [n \in {"A", "B"} |-> split(tensors["x"])] @@ tensors
            /\ pc' = "block1"
            /\ error' = error
       ELSE /\ pc' = "failed"
            /\ error' = "ValueError: split"
            /\ tensors' = tensors
  /\ si' = 1
  /\ ri' = 0
  /\ UNCHANGED <<hps, mode, images, x, applied, returned, last_add, layers,
                 update_ops, head, train_op, moving, global_step, fwd_runs,
                 train_runs, unit>>

Halves(parents) ==
  [n \in UNION {{p \o "A", p \o "B"} : p \in parents} |->
     split(tensors[SubSeq(n, 1, Len(n) - 1)])]

\* with tf.variable_scope('stage2-split'): x_AA, x_AB = tf.split(3, 2, x_A) ...
Split2 ==
  /\ pc = "split2"
  /\ IF \A p \in {"A", "B"} : split_ok(tensors[p])
       THEN /\ tensors' = Halves({"A", "B"}) @@ tensors
            /\ pc' = "block2"
            /\ error' = error
       ELSE /\ pc' = "failed"
            /\ error' = "ValueError: split"
            /\ tensors' = tensors
  /\ si' = 1
  /\ ri' = 0
  /\ UNCHANGED <<hps, mode, images, x, applied, returned, last_add, layers,
                 update_ops, head, train_op, moving, global_step, fwd_runs,
                 train_runs, unit>>

\* with tf.variable_scope('stage2-split'): x_AAA, x_AAB = tf.split(3, 2, x_AA) ...
Split3 ==
  /\ pc = "split3"
  /\ IF \A p \in {"AA", "AB", "BA", "BB"} : split_ok(tensors[p])
       THEN /\ tensors' = Halves({"AA", "AB", "BA", "BB"}) @@ tensors
            /\ pc' = "block3"
            /\ error' = error
       ELSE /\ pc' = "failed"
            /\ error' = "ValueError: split"
            /\ tensors' = tensors
  /\ si' = 1
  /\ ri' = 0
  /\ UNCHANGED <<hps, mode, images, x, applied, returned, last_add, layers,
                 update_ops, head, train_op, moving, global_step, fwd_runs,
                 train_runs, unit>>

\* one application of self._residual inside the running stage call
ApplyResidual(scope, in, stride) ==
  LET sc == variable_scope(variable_scope(pc, scope), residual_scope(ri))
      r  == residual(in, StageFilters, stride)
  IN  /\ layers' = layers \o residual_layers(sc)
      /\ update_ops' = update_ops \o bn_updates(mode, residual_bn(sc))
      /\ moving' = bn_register(moving, residual_bn(sc))
      /\ applied' = [applied EXCEPT ![scope] =
                       Append(@, [stride |-> stride, out_filter |-> StageFilters])]
      /\ last_add' = IF r.added THEN [main |-> r.main, shortcut |-> r.shortcut]
                     ELSE last_add
      /\ IF r.ok
           THEN /\ x' = r.out
                /\ ri' = ri + 1
                /\ pc' = pc
                /\ error' = error
           ELSE /\ x' = x
                /\ ri' = ri
                /\ pc' = "failed"
                /\ error' = r.err

\* stage(): with tf.variable_scope('residual_0'): x = self._residual(x, out_filter,
\* stride=first_layer_stride)
StageEnter ==
  /\ pc \in Blocks
  /\ ri = 0
  /\ ApplyResidual(BlockStages(pc)[si], tensors[BlockStages(pc)[si]],
                   first_layer_stride(pc))
  /\ UNCHANGED <<hps, mode, images, tensors, si, returned, head, train_op,
                 global_step, fwd_runs, train_runs, unit>>

\* stage(): for i in range(1, n_residuals): x = self._residual(x, out_filter, stride=1)
StageLoop ==
  /\ pc \in Blocks
  /\ ri >= 1
  /\ loop_continues(ri, hps.num_residual_units)
  /\ ApplyResidual(BlockStages(pc)[si], x, 1)
  /\ UNCHANGED <<hps, mode, images, tensors, si, returned, head, train_op,
                 global_step, fwd_runs, train_runs, unit>>

\* stage(): return x, assigned to the branch's tensor by _build_model
StageReturn ==
  /\ pc \in Blocks
  /\ ri >= 1
  /\ ~loop_continues(ri, hps.num_residual_units)
  /\ tensors' = [tensors EXCEPT ![BlockStages(pc)[si]] = x]
  /\ returned' = returned \cup {BlockStages(pc)[si]}
  /\ ri' = 0
  /\ IF si < Len(BlockStages(pc))
       THEN si' = si + 1 /\ pc' = pc
       ELSE si' = 1 /\ pc' = AfterBlock(pc)
  /\ UNCHANGED <<hps, mode, images, error, x, applied, last_add, layers,
                 update_ops, head, train_op, moving, global_step, fwd_runs,
                 train_runs, unit>>

Leaves == BlockStages("block3")
LeafValues == [i \in 1..Len(Leaves) |-> tensors[Leaves[i]]]

\* with tf.variable_scope('unify'): x = tf.concat(3, [x_AAA, ..., x_BBB])
Unify ==
  /\ pc = "unify"
  /\ IF concat_ok(LeafValues)
       THEN /\ head' = [head EXCEPT !.concat = concat(LeafValues)]
            /\ pc' = "final"
            /\ error' = error
       ELSE /\ head' = head
            /\ pc' = "failed"
            /\ error' = "ValueError: concat"
  /\ UNCHANGED <<hps, mode, images, tensors, si, ri, x, applied, returned,
                 last_add, layers, update_ops, train_op, moving, global_step,
                 fwd_runs, train_runs, unit>>

\* with tf.variable_scope('final'): conv to 40 filters, batch norm, relu,
\* global average pool
Final ==
  /\ pc = "final"
  /\ LET bn == variable_scope("final", "bn_2")
         y  == relu(batch_norm(conv(head.concat, FinalFilters, 1)))
     IN  /\ layers' = layers \o
                        << [scope |-> variable_scope("final", "unify"), kind |-> "conv"],
                           [scope |-> bn, kind |-> "bn"] >>
         /\ update_ops' = update_ops \o bn_updates(mode, <<bn>>)
         /\ moving' = bn_register(moving, <<bn>>)
         /\ IF Len(y) = 4
              THEN /\ head' = [head EXCEPT !.pool = global_avg_pool(y)]
                   /\ pc' = "logit"
                   /\ error' = error
              ELSE /\ head' = head
                   /\ pc' = "failed"
                   /\ error' = "AssertionError"
  /\ UNCHANGED <<hps, mode, images, tensors, si, ri, x, applied, returned,
                 last_add, train_op, global_step, fwd_runs, train_runs, unit>>

\* with tf.variable_scope('logit'): flatten, fully connected, softmax
Logit ==
  /\ pc = "logit"
  /\ LET flat == flatten(head.pool)
         logits == fully_connected(flat, hps.num_classes)
     IN  head' = [head EXCEPT !.flat = flat, !.logits = logits,
                              !.predictions = logits]
  /\ layers' = Append(layers, [scope |-> variable_scope("logit", "fully_connected"),
                                kind |-> "fc"])
  /\ pc' = "costs"
  /\ UNCHANGED <<hps, mode, images, error, tensors, si, ri, x, applied, returned,
                 last_add, update_ops, train_op, moving, global_step, fwd_runs,
                 train_runs, unit>>

\* with tf.variable_scope('costs'): cross entropy of logits against labels of
\* shape [batch_size, num_classes], plus the weight decay; then
\* custom_ops.log_number_of_params() in build_graph
Costs ==
  /\ pc = "costs"
  /\ IF head.logits = <<hps.batch_size, hps.num_classes>>
       THEN pc' = "train_op" /\ error' = error
       ELSE pc' = "failed" /\ error' = "ValueError: xent"
  /\ UNCHANGED <<hps, mode, images, tensors, si, ri, x, applied, returned,
                 last_add, layers, update_ops, head, train_op, moving,
                 global_step, fwd_runs, train_runs, unit>>

\* build_graph: if self.mode == 'train'
builds_train_op(m) == m = "train"

\* _build_train_op: the branches that bind `optimizer`
optimizer_bound(o) == o = "sgd" \/ o = "mom"

\* train_ops = [apply_op] + self._extra_train_ops + tf.get_collection(UPDATE_OPS)
train_ops_mut(apply_op, extra, collection) == {apply_op} \cup SeqToSet(extra)
train_ops(apply_op, extra, collection) ==
  {apply_op} \cup SeqToSet(extra) \cup SeqToSet(collection)

\* self._extra_train_ops = [] in the constructor, never extended
extra_train_ops == <<>>

\* build_graph in train mode: self._build_train_op()
BuildTrainOp ==
  /\ pc = "train_op"
  /\ builds_train_op(mode)
  /\ IF optimizer_bound(hps.optimizer)
       THEN /\ train_op' = [exists |-> TRUE,
                            ops |-> train_ops("train_step", extra_train_ops, update_ops)]
            /\ pc' = "summaries"
            /\ error' = error
       ELSE /\ train_op' = train_op
            /\ pc' = "failed"
            /\ error' = "UnboundLocalError: optimizer"
  /\ UNCHANGED <<hps, mode, images, tensors, si, ri, x, applied, returned,
                 last_add, layers, update_ops, head, moving, global_step,
                 fwd_runs, train_runs, unit>>

\* build_graph in any other mode: _build_train_op is not called
SkipTrainOp ==
  /\ pc = "train_op"
  /\ ~builds_train_op(mode)
  /\ pc' = "summaries"
  /\ UNCHANGED <<hps, mode, images, error, tensors, si, ri, x, applied, returned,
                 last_add, layers, update_ops, head, train_op, moving,
                 global_step, fwd_runs, train_runs, unit>>

\* self.summaries = tf.merge_all_summaries(): build_graph returns
MergeSummaries ==
  /\ pc = "summaries"
  /\ pc' = "done"
  /\ UNCHANGED <<hps, mode, images, error, tensors, si, ri, x, applied, returned,
                 last_add, layers, update_ops, head, train_op, moving,
                 global_step, fwd_runs, train_runs, unit>>

\* ------------------------------------------------- running the built graph

\* the moving averages after the ops of one fetch have run
run_updates(mv, ops) ==
  [p \in DOMAIN mv |-> IF p \in ops THEN mv[p] + 1 ELSE mv[p]]

\* fetching self.predictions: the forward pass; no op of UPDATE_OPS is an
\* input of the predictions
RunForward ==
  /\ pc = "done"
  /\ fwd_runs + train_runs < MaxRuns
  /\ fwd_runs' = fwd_runs + 1
  /\ moving' = run_updates(moving, {})
  /\ UNCHANGED <<hps, mode, images, pc, error, tensors, si, ri, x, applied,
                 returned, last_add, layers, update_ops, head, train_op,
                 global_step, train_runs, unit>>

\* fetching self.train_op: every op grouped into it runs once
RunTrainStep ==
  /\ pc = "done"
  /\ train_op.exists
  /\ fwd_runs + train_runs < MaxRuns
  /\ train_runs' = train_runs + 1
  /\ global_step' = IF "train_step" \in train_op.ops THEN global_step + 1
                    ELSE global_step
  /\ moving' = run_updates(moving, train_op.ops)
  /\ UNCHANGED <<hps, mode, images, pc, error, tensors, si, ri, x, applied,
                 returned, last_add, layers, update_ops, head, train_op,
                 fwd_runs, unit>>

Next ==
  \/ InitConv
  \/ Split1
  \/ StageEnter
  \/ StageLoop
  \/ StageReturn
  \/ Split2
  \/ Split3
  \/ Unify
  \/ Final
  \/ Logit
  \/ Costs
  \/ BuildTrainOp
  \/ SkipTrainOp
  \/ MergeSummaries
  \/ RunForward
  \/ RunTrainStep

Spec == Init /\ [][Next]_vars

\* ------------------------------------------- a residual unit on its own

UnitChannels == {StageFilters \div NumSplit, StageFilters, InitFilters}
UnitStrides == {1, 2}

InitUnit ==
  /\ hps = [batch_size |-> 1, num_classes |-> 1, num_residual_units |-> 1,
            optimizer |-> "sgd"]
  /\ mode = "eval"
  /\ images = <<1, 1, 1, ImageChannels>>
  /\ pc = "unit"
  /\ error = ""
  /\ tensors = [n \in {} |-> <<>>]
  /\ si = 1
  /\ ri = 0
  /\ x = <<>>
  /\ applied = [s \in AllStages |-> <<>>]
  /\ returned = {}
  /\ last_add = [main |-> <<>>, shortcut |-> <<>>]
  /\ layers = <<>>
  /\ update_ops = <<>>
  /\ head = NoHead
  /\ train_op = NoneTrainOp
  /\ moving = [p \in {} |-> 0]
  /\ global_step = 0
  /\ fwd_runs = 0
  /\ train_runs = 0
  /\ \E b \in 1..MaxBatch, h \in 1..MaxImage, w \in 1..MaxImage,
        c \in UnitChannels, s \in UnitStrides :
        unit = [NoUnit EXCEPT !.in = <<b, h, w, c>>, !.out_filter = StageFilters,
                              !.stride = s]

\* x = self._residual(x, out_filter, stride)
CallResidual ==
  /\ pc = "unit"
  /\ ~unit.called
  /\ unit' = [unit EXCEPT !.called = TRUE,
                          !.res = residual(unit.in, unit.out_filter, unit.stride)]
  /\ UNCHANGED buildVars

NextUnit == CallResidual

SpecUnit == InitUnit /\ [][NextUnit]_vars

\* ------------------------------------------------------------ properties

BNLayers == {layers[i].scope : i \in {j \in 1..Len(layers) : layers[j].kind = "bn"}}
BlockOf(s) == CASE Len(s) = 1 -> "block1" [] Len(s) = 2 -> "block2" [] OTHER -> "block3"
Max(a, b) == IF a >= b THEN a ELSE b

\* C1: when build_graph completes, the global average pool has reduced the head
\* tensor to [batch_size, 40], flatten has left it unchanged, and the logits
\* have shape exactly [batch_size, num_classes].
C1_LogitsShape ==
  pc = "done" =>
    /\ head.pool = <<hps.batch_size, FinalFilters>>
    /\ head.flat = head.pool
    /\ head.logits = <<hps.batch_size, hps.num_classes>>

C1_Witness ==
  /\ pc = "done"
  /\ hps.batch_size = 2
  /\ hps.num_classes = 2
  /\ hps.num_residual_units = 2
  /\ images = <<2, 4, 6, ImageChannels>>
  /\ head.logits = <<2, 2>>

\* C2 (as claimed): just before its Stage runs, each of the 8 leaf branches
\* holds a tensor with C_init / 8 channels.
C2_Original ==
  pc = "block3" =>
    \A s \in SeqToSet(Leaves) \ returned :
       tensors[s][4] = InitFilters \div Len(Leaves)

\* C2 (amended): just before its Stage runs, each of the 8 leaf branches holds
\* half of the out_filter channels the level-2 Stage produced (8 / 2 = 4),
\* whatever C_init is; only the level-1 branches hold C_init / 2 channels.
C2_LeafChannels ==
  /\ pc = "block3" =>
       \A s \in SeqToSet(Leaves) \ returned :
          tensors[s][4] = StageFilters \div NumSplit
  /\ pc = "block1" =>
       \A s \in SeqToSet(BlockStages("block1")) \ returned :
          tensors[s][4] = InitFilters \div NumSplit

C2_Witness ==
  /\ pc = "block3"
  /\ si = 3
  /\ ri = 0
  /\ "ABA" \notin returned
  /\ tensors["ABA"][4] = 4

\* C3: a residual unit on 16 input channels and spatial size S, with out_filter 8
\* and stride 2, adds a shortcut with 8 channels and spatial size ceil(S / 2).
C3_Original ==
  (unit.called /\ unit.in[4] = 16 /\ unit.out_filter = 8 /\ unit.stride = 2
     /\ unit.in[2] = unit.in[3]) =>
    /\ unit.res.added
    /\ unit.res.shortcut[4] = 8
    /\ unit.res.shortcut[2] = ceil_div(unit.in[2], 2)
    /\ unit.res.shortcut[3] = ceil_div(unit.in[3], 2)

\* C4: with an optimizer other than 'sgd' and 'mom', build_graph never returns a
\* built graph, in train mode and in eval mode.
C4_Original ==
  hps.optimizer \notin {"sgd", "mom"} => pc # "done"

\* C5 (as claimed): in eval mode no number of passes changes a batch-norm moving
\* average; in train mode the moving averages are changed after one pass.
C5_Original ==
  pc = "done" =>
    /\ mode = "eval" => \A p \in BNLayers : moving[p] = 0
    /\ (mode = "train" /\ fwd_runs + train_runs >= 1) =>
          \A p \in BNLayers : moving[p] >= 1

\* C5 (amended): in eval mode no number of passes changes a batch-norm moving
\* average; in train mode every execution of the training step updates every
\* moving average once, and a forward pass alone updates none.
C5_MovingAverages ==
  pc = "done" =>
    /\ BNLayers = DOMAIN moving
    /\ mode = "eval" => \A p \in BNLayers : moving[p] = 0
    /\ mode = "train" => \A p \in BNLayers : moving[p] = train_runs

C5_Witness ==
  /\ pc = "done"
  /\ mode = "train"
  /\ fwd_runs = 1
  /\ train_runs = 1
  /\ BNLayers # {}
  /\ \A p \in BNLayers : moving[p] = 1

\* C6: a train_op exists only in train mode; it groups the apply-gradients op,
\* which increments global_step, with the moving-average update of every
\* batch-norm layer the model build created, so each executed step advances
\* both together; in eval mode there is no train_op.
C6_TrainOp ==
  /\ train_op.exists =>
       /\ mode = "train"
       /\ "train_step" \in train_op.ops
       /\ BNLayers \subseteq train_op.ops
  /\ (pc = "done" /\ mode = "eval") => ~train_op.exists
  /\ (pc = "done" /\ mode = "train") => train_op.exists
  /\ ~train_op.exists => (train_runs = 0 /\ global_step = 0)
  /\ train_op.exists =>
       /\ global_step = train_runs
       /\ \A p \in BNLayers : p \in DOMAIN moving /\ moving[p] = global_step

C6_Witness ==
  /\ pc = "done"
  /\ mode = "train"
  /\ train_op.exists
  /\ global_step = 2
  /\ Cardinality(train_op.ops) = 1 + Cardinality(BNLayers)
  /\ Cardinality(BNLayers) > 1

\* C7: the scope paths of any two distinct layers of the network differ, for
\* every num_residual_units.
C7_DistinctScopes ==
  Cardinality({layers[i].scope : i \in 1..Len(layers)}) = Len(layers)

C7_Witness ==
  /\ pc = "done"
  /\ hps.num_residual_units = 2
  /\ Len(layers) = 1 + 14 * 2 * 4 + 2 + 1
  /\ \E i \in 1..Len(layers) : layers[i].scope = "block3/BBA/residual_1/sub2/bn_2"

\* C8: the 8 leaf tensors the level-3 Stages return have 8 channels each and one
\* spatial size, so the concatenation is defined and has 8 * 8 = 64 channels.
C8_Concat ==
  /\ pc = "unify" =>
       /\ \A i \in 1..Len(Leaves) : LeafValues[i][4] = StageFilters
       /\ concat_ok(LeafValues)
  /\ pc \in {"final", "logit"} \cup {"costs", "train_op", "summaries", "done"} =>
       /\ head.concat[4] = Len(Leaves) * StageFilters
       /\ head.concat[4] = 64
       /\ \A i \in 1..Len(Leaves) : \A d \in 1..3 : head.concat[d] = LeafValues[i][d]

C8_Witness ==
  /\ pc = "final"
  /\ hps.num_residual_units = 2
  /\ head.concat = <<hps.batch_size, 2, 1, 64>>

\* C9 (as claimed): a stage call applies exactly n residual units, also for n = 0.
C9_Original ==
  \A s \in returned : Len(applied[s]) = hps.num_residual_units

\* C9 (amended): a stage call applies exactly max(n, 1) residual units, all with
\* the stage's out_filter, the first with first_layer_stride and the others with
\* stride 1: exactly n for n >= 1, and still one for n = 0.
C9_StageUnits ==
  \A s \in returned :
    /\ Len(applied[s]) = Max(hps.num_residual_units, 1)
    /\ applied[s][1].stride = first_layer_stride(BlockOf(s))
    /\ \A i \in 2..Len(applied[s]) : applied[s][i].stride = 1
    /\ \A i \in 1..Len(applied[s]) : applied[s][i].out_filter = StageFilters

C9_Witness ==
  /\ "AB" \in returned
  /\ hps.num_residual_units = 2
  /\ applied["AB"] = << [stride |-> 2, out_filter |-> 8],
                        [stride |-> 1, out_filter |-> 8] >>

\* C10: in every residual unit of the model (num_residual_units >= 1, any image
\* height and width >= 1) the shortcut and the main path have the same shape at
\* x += orig_x, so the build never reaches a shape-mismatched add.
C10_Original ==
  hps.num_residual_units >= 1 =>
    /\ last_add.main = last_add.shortcut
    /\ error # "ValueError: add"
====
